---- MODULE Spec2Model ----
(***************************************************************************)
(* A model of src/App.tsx: the budget tracker's persisted state (accounts, *)
(* pockets, debts, pocket percentages), its UI handlers (CurrencyInput,    *)
(* DashboardList, PaycheckFlow, DebtManager) and the useLocalStorage hook. *)
(*                                                                         *)
(* Money is an integer number of thousandths of a euro, so that amounts    *)
(* with more than two decimals (1.005) are distinct values and toFixed(2)  *)
(* is a real rounding.  Decimal arithmetic is exact here: the             *)
(* representation error of binary floating point is not modelled.          *)
(***************************************************************************)
EXTENDS Integers, Sequences, FiniteSets, TLC

VARIABLES
    accounts,           \* App: accounts (useLocalStorage 'hugo_accounts_v3')
    pockets,            \* App: pockets (useLocalStorage 'hugo_pockets_v3')
    debts,              \* App: debts (useLocalStorage 'hugo_debts_v3')
    pocketPercentages,  \* App: pocketPercentages (useLocalStorage 'hugo_pockets_pct_v3')
    showPaycheck,       \* App: showPaycheck
    income,             \* PaycheckFlow: income; 0 stands for '' (the code never stores the number 0)
    focused,            \* id of the CurrencyInput whose `focused` is true, or "none"
    borrowFrom,         \* DebtManager: borrowFrom
    toFund,             \* DebtManager: toFund
    amount,             \* DebtManager: amount (the string held in React state)
    amountInput,        \* the text typed in the "Montant" <input type="number">
    storage,            \* window.localStorage, key -> item
    nEvents,            \* events handled so far (bounds the run)
    phase,              \* start-up: "start", "mounted", "running", "crashed"
    mounted,            \* start-up: key -> the value useLocalStorage's initializer returned
    lastEvent           \* the last UI event handled (history, read by the properties only)

vars == << accounts, pockets, debts, pocketPercentages, showPaycheck, income,
           focused, borrowFrom, toFund, amount, amountInput, storage,
           nEvents, phase, mounted, lastEvent >>

-----------------------------------------------------------------------------
(* Bounds of the model *)

MaxEvents == 7
MaxDebts == 2
MaxClock == 2

-----------------------------------------------------------------------------
(* Numbers *)

\* toFixed(2) keeps hundredths: one hundredth is 10 thousandths.
Cent == 10
Euro == 100 * Cent

Abs(x) == IF x < 0 THEN -x ELSE x
Max(a, b) == IF a >= b THEN a ELSE b

\* parseFloat(x.toFixed(2)): the nearest hundredth, a tie going away from zero.
ToFixed2(x) ==
    IF x >= 0 THEN ((x + Cent \div 2) \div Cent) * Cent
    ELSE -((((-x) + Cent \div 2) \div Cent) * Cent)

\* parseFloat((n / d).toFixed(2)) for d > 0, without leaving the integers.
ToFixed2Ratio(n, d) ==
    IF n >= 0 THEN ((2 * n + Cent * d) \div (2 * Cent * d)) * Cent
    ELSE -(((2 * (-n) + Cent * d) \div (2 * Cent * d)) * Cent)

\* The decimal texts a user types in this model, with their value.
Decimal ==
    ("0" :> 0) @@ ("1.005" :> 1005) @@ ("-0.125" :> -125) @@ ("300" :> 300 * Euro) @@
    ("100" :> 100 * Euro) @@ ("1500.01" :> 1500 * Euro + Cent) @@
    ("20.337" :> 20337)

\* What cannot be a number: letters, and a text whose value is not finite.
BadTexts == {"abc", "1e999"}

\* e.target.value of an <input type="number">: the text when it is a finite
\* floating-point number, and "" for anything else.
InputNumberValue(typed) == IF typed \in DOMAIN Decimal THEN typed ELSE ""

\* parseFloat(text) || 0: NaN (the empty text) and 0 both give 0.
ParseFloatOr0(text) == IF text \in DOMAIN Decimal THEN Decimal[text] ELSE 0

RECURSIVE SumBalances(_)
SumBalances(items) ==
    IF items = << >> THEN 0 ELSE Head(items).balance + SumBalances(Tail(items))

RECURSIVE SumValues(_, _)
SumValues(f, keys) ==
    IF keys = {} THEN 0
    ELSE LET k == CHOOSE x \in keys : TRUE IN f[k] + SumValues(f, keys \ {k})

-----------------------------------------------------------------------------
(* The default seed state *)

DefaultAccounts ==
    << [id |-> "1", name |-> "BNP", balance |-> 0],
       [id |-> "2", name |-> "Revolut", balance |-> 0] >>

DefaultPockets ==
    << [id |-> "p1", name |-> "Life", balance |-> 0],
       [id |-> "p2", name |-> "Plaisirs", balance |-> 0],
       [id |-> "p3", name |-> "Remboursement Papa", balance |-> 0],
       [id |-> "p4", name |-> "Cadeaux", balance |-> 0],
       [id |-> "p5", name |-> "Epargne", balance |-> 0] >>

DefaultDebts == << >>

DefaultPercentages ==
    ("Life" :> 25) @@ ("Plaisirs" :> 35) @@ ("Remboursement Papa" :> 25) @@
    ("Cadeaux" :> 5) @@ ("Epargne" :> 10)

AccountsKey == "hugo_accounts_v3"
PocketsKey == "hugo_pockets_v3"
DebtsKey == "hugo_debts_v3"
PercentagesKey == "hugo_pockets_pct_v3"
Keys == {AccountsKey, PocketsKey, DebtsKey, PercentagesKey}

-----------------------------------------------------------------------------
(* useLocalStorage *)

\* A JavaScript value: its type and, for the values the program writes, the value.
JsArray(v) == [type |-> "array", val |-> v]
JsObject(v) == [type |-> "object", val |-> v]
JsNull == [type |-> "null", val |-> << >>]
JsNumber == [type |-> "number", val |-> << >>]

\* A localStorage item: what getItem returns.
AbsentItem == [text |-> "absent", val |-> << >>]     \* getItem gives null
EmptyItem == [text |-> "empty", val |-> << >>]       \* ""
GarbageItem == [text |-> "garbage", val |-> << >>]   \* "{not json"
NullItem == [text |-> "null", val |-> << >>]         \* "null"
NumberItem == [text |-> "number", val |-> << >>]     \* "42"

JsonStringify(js) == [text |-> "json", val |-> js]

\* JSON.parse of a text that parses.
JsonParse(item) ==
    CASE item.text = "null" -> JsNull
      [] item.text = "number" -> JsNumber
      [] OTHER -> item.val

InitialValue(key) ==
    CASE key = AccountsKey -> JsArray(DefaultAccounts)
      [] key = PocketsKey -> JsArray(DefaultPockets)
      [] key = DebtsKey -> JsArray(DefaultDebts)
      [] OTHER -> JsObject(DefaultPercentages)

\* The useState initializer of useLocalStorage.
UseLocalStorage(item, initialValue) ==
    IF item.text \in {"absent", "empty"} THEN initialValue    \* item is falsy
    ELSE IF item.text = "garbage" THEN initialValue           \* JSON.parse throws
    ELSE JsonParse(item)

\* Faulty variant: the value the hook held before (storedValue) is what is stringified
SetItemStale(st, key, js, ok) ==
    IF ok
    THEN [st EXCEPT ![key] = JsonStringify(UseLocalStorage(st[key], InitialValue(key)))]
    ELSE st

\* setValue's localStorage.setItem: ok is whether setItem returned (it did not throw).
SetItem(st, key, js, ok) == IF ok THEN [st EXCEPT ![key] = JsonStringify(js)] ELSE st

-----------------------------------------------------------------------------
(* App: derived values *)

\* items.find(a => a.name === name)?.balance || 0
FindBalance(items, name) ==
    IF \E i \in DOMAIN items : items[i].name = name
    THEN LET i == CHOOSE j \in DOMAIN items :
                      /\ items[j].name = name
                      /\ \A k \in DOMAIN items : items[k].name = name => j <= k
         IN items[i].balance
    ELSE 0

\* The loop of getVirtual: every debt that names the container is applied, in order.
RECURSIVE DebtOverlay(_, _, _)
DebtOverlay(ds, name, v) ==
    IF ds = << >> THEN v
    ELSE LET d == Head(ds)
             lent == IF d.borrowFrom = name THEN d.amount ELSE 0
             owed == IF d.toFund = name THEN d.amount ELSE 0
         IN DebtOverlay(Tail(ds), name, v + lent - owed)

\* getVirtual(name, bal), with the debts it closes over as ds.
GetVirtual(ds, name, bal) == ToFixed2(DebtOverlay(ds, name, bal))

RevolutBalance == ToFixed2(SumBalances(pockets))

\* Faulty variant: the Revolut row without isReadonly
DisplayAccountsEditable ==
    [i \in DOMAIN accounts |->
        [id |-> accounts[i].id, name |-> accounts[i].name,
         balance |-> IF accounts[i].name = "Revolut" THEN RevolutBalance
                     ELSE accounts[i].balance,
         isReadonly |-> FALSE]]

\* displayAccounts; isReadonly is undefined (falsy) on the other accounts.
DisplayAccounts ==
    [i \in DOMAIN accounts |->
        IF accounts[i].name = "Revolut"
        THEN [id |-> accounts[i].id, name |-> accounts[i].name,
              balance |-> RevolutBalance, isReadonly |-> TRUE]
        ELSE [id |-> accounts[i].id, name |-> accounts[i].name,
              balance |-> accounts[i].balance, isReadonly |-> FALSE]]

\* totalNetWorth
TotalNetWorth == ToFixed2(FindBalance(accounts, "BNP") + RevolutBalance)

\* The items of the two DashboardLists, "Comptes" then "Poches (Revolut)".
DashboardItems ==
    DisplayAccounts \o
    [i \in DOMAIN pockets |->
        [id |-> pockets[i].id, name |-> pockets[i].name,
         balance |-> pockets[i].balance, isReadonly |-> FALSE]]

\* The items rendered with a CurrencyInput (item.isReadonly is falsy).
CurrencyInputs == {DashboardItems[i] : i \in {j \in DOMAIN DashboardItems : ~DashboardItems[j].isReadonly}}

InputOf(id) == CHOOSE it \in CurrencyInputs : it.id = id

IsAccountId(id) == \E i \in DOMAIN accounts : accounts[i].id = id

\* updateBalance's prev.map
UpdateBalance(prev, id, balance) ==
    [i \in DOMAIN prev |-> IF prev[i].id = id THEN [prev[i] EXCEPT !.balance = balance] ELSE prev[i]]

\* sources of DebtManager
Sources == [i \in DOMAIN accounts |-> accounts[i].name] \o [i \in DOMAIN pockets |-> pockets[i].name]

InitialBorrowFrom == IF Len(Sources) >= 1 THEN Sources[1] ELSE "BNP"
InitialToFund == IF Len(Sources) >= 2 THEN Sources[2] ELSE "Cadeaux"

-----------------------------------------------------------------------------
(* PaycheckFlow: derived values *)

TotalCharges == 236 * Euro

RawBnpBalance == FindBalance(accounts, "BNP")
BnpBalance == GetVirtual(debts, "BNP", RawBnpBalance)

\* Number(income) || 0
Inc == income

\* Faulty variant: the raw balance where the code takes the debt-adjusted one
ExcessIgnoringDebts(inc) == Max(0, RawBnpBalance + inc - TotalCharges)

\* excessForRevolut
ExcessForRevolut(inc) == Max(0, (BnpBalance + inc) - TotalCharges)

NewBnpBalance(inc) == ToFixed2(RawBnpBalance + inc - ExcessForRevolut(inc))

\* pocketPercentages[p.name] || 0
PctOf(name) == IF name \in DOMAIN pocketPercentages THEN pocketPercentages[name] ELSE 0

\* amountToAdd
AmountToAdd(excess, pct) == ToFixed2Ratio(excess * pct, 100)

TotalPercentage == SumValues(pocketPercentages, DOMAIN pocketPercentages)
IsError == TotalPercentage # 100

\* Faulty variant: the button without its disabled attribute
ApplyNeverDisabled == FALSE

\* disabled={isError} on the "Valider la distribution" button
ApplyDisabled == IsError

\* The block holding the sliders and the button is rendered when inc > 0.
SplitterRendered == Inc > 0

-----------------------------------------------------------------------------
(* DebtManager: helpers *)

\* !amount || isNaN(Number(amount))
AmountRejected(text) == text = "" \/ text \notin DOMAIN Decimal

\* Faulty variant: the amount as parsed, toFixed(2) forgotten
RoundedAmountUnrounded(text) == Decimal[text]

\* roundedAmount = parseFloat(parseFloat(amount).toFixed(2))
RoundedAmount(text) == ToFixed2(Decimal[text])

\* debts.filter(d => d.id !== id)
RemoveDebt(ds, id) == SelectSeq(ds, LAMBDA d : d.id # id)

-----------------------------------------------------------------------------
(* The inputs of the model *)

\* Texts typed in a CurrencyInput, in the income field, in the "Montant" field.
BalanceTexts == {"", "1.005", "-0.125", "300"}
IncomeTexts == {"", "100", "1500.01"}
AmountTexts == {"", "20.337"} \cup BadTexts
\* Options picked in the two selects, and the sliders moved.
SelectOptions == {"BNP", "Revolut"}
SliderPockets == {"Life", "Plaisirs"}
SliderValues == {25, 35}
\* The CurrencyInputs a user tries to focus.
EditIds == {"1", "2", "p1"}
\* Date.now(): the wall clock, which may repeat a reading or step back.
Clock == 1 .. MaxClock

-----------------------------------------------------------------------------
(* The initial state: a first visit, localStorage empty *)

Init ==
    /\ storage = [k \in Keys |-> AbsentItem]
    /\ accounts = UseLocalStorage(AbsentItem, InitialValue(AccountsKey)).val
    /\ pockets = UseLocalStorage(AbsentItem, InitialValue(PocketsKey)).val
    /\ debts = UseLocalStorage(AbsentItem, InitialValue(DebtsKey)).val
    /\ pocketPercentages = UseLocalStorage(AbsentItem, InitialValue(PercentagesKey)).val
    /\ showPaycheck = FALSE
    /\ income = 0
    /\ focused = "none"
    /\ borrowFrom = "BNP"
    /\ toFund = "Revolut"
    /\ amount = ""
    /\ amountInput = ""
    /\ nEvents = 0
    /\ phase = "running"
    /\ mounted = [k \in Keys |-> UseLocalStorage(AbsentItem, InitialValue(k))]
    /\ lastEvent = "none"

\* One more event is handled.
Handled == nEvents < MaxEvents /\ nEvents' = nEvents + 1

Dashboard == phase = "running" /\ ~showPaycheck /\ Handled
Paycheck == phase = "running" /\ showPaycheck /\ Handled

-----------------------------------------------------------------------------
(* CurrencyInput and DashboardList.updateBalance *)

\* setItems(prev => prev.map(...)) of the list that holds the item, through setValue.
SetBalance(id, balance, ok) ==
    IF IsAccountId(id)
    THEN /\ accounts' = UpdateBalance(accounts, id, balance)
         /\ storage' = SetItem(storage, AccountsKey, JsArray(accounts'), ok)
         /\ UNCHANGED pockets
    ELSE /\ pockets' = UpdateBalance(pockets, id, balance)
         /\ storage' = SetItem(storage, PocketsKey, JsArray(pockets'), ok)
         /\ UNCHANGED accounts

OnFocus(id) ==
    /\ Dashboard
    /\ focused = "none"
    /\ \E it \in CurrencyInputs : it.id = id
    /\ focused' = id
    /\ lastEvent' = "OnFocus"
    /\ UNCHANGED << accounts, pockets, debts, pocketPercentages, showPaycheck, income,
                    borrowFrom, toFund, amount, amountInput, storage,
                    phase, mounted >>

\* onChange={(e) => onChange(parseFloat(e.target.value) || 0)}
OnChange(typed, ok) ==
    /\ Dashboard
    /\ focused # "none"
    /\ SetBalance(focused, ParseFloatOr0(InputNumberValue(typed)), ok)
    /\ lastEvent' = "OnChange"
    /\ UNCHANGED << debts, pocketPercentages, showPaycheck, income, focused,
                    borrowFrom, toFund, amount, amountInput, phase, mounted >>

\* onBlur: setFocused(false); onChange(parseFloat((value || 0).toFixed(2)))
OnBlur(ok) ==
    /\ Dashboard
    /\ focused # "none"
    /\ SetBalance(focused, ToFixed2(InputOf(focused).balance), ok)
    /\ focused' = "none"
    /\ lastEvent' = "OnBlur"
    /\ UNCHANGED << debts, pocketPercentages, showPaycheck, income,
                    borrowFrom, toFund, amount, amountInput, phase, mounted >>

-----------------------------------------------------------------------------
(* PaycheckFlow *)

\* "Nouvelle Paye": PaycheckFlow mounts with income '' and DebtManager unmounts,
\* so that its form is in its initial state when it mounts again.
OpenPaycheck ==
    /\ Dashboard
    /\ focused = "none"
    /\ showPaycheck' = TRUE
    /\ income' = 0
    /\ borrowFrom' = InitialBorrowFrom
    /\ toFund' = InitialToFund
    /\ amount' = ""
    /\ amountInput' = ""
    /\ lastEvent' = "OpenPaycheck"
    /\ UNCHANGED << accounts, pockets, debts, pocketPercentages, focused, storage,
                    phase, mounted >>

\* onClose
ClosePaycheck ==
    /\ Paycheck
    /\ showPaycheck' = FALSE
    /\ income' = 0
    /\ lastEvent' = "ClosePaycheck"
    /\ UNCHANGED << accounts, pockets, debts, pocketPercentages, focused,
                    borrowFrom, toFund, amount, amountInput, storage,
                    phase, mounted >>

\* setIncome(parseFloat(e.target.value) || '')
SetIncome(typed) ==
    /\ Paycheck
    /\ income' = ParseFloatOr0(InputNumberValue(typed))
    /\ lastEvent' = "SetIncome"
    /\ UNCHANGED << accounts, pockets, debts, pocketPercentages, showPaycheck, focused,
                    borrowFrom, toFund, amount, amountInput, storage,
                    phase, mounted >>

\* setPocketPercentages({ ...pocketPercentages, [pocket]: parseInt(e.target.value) })
MoveSlider(pocket, pct, ok) ==
    /\ Paycheck
    /\ SplitterRendered
    /\ pocket \in DOMAIN pocketPercentages
    /\ pocketPercentages' = [pocketPercentages EXCEPT ![pocket] = pct]
    /\ storage' = SetItem(storage, PercentagesKey, JsObject(pocketPercentages'), ok)
    /\ lastEvent' = "MoveSlider"
    /\ UNCHANGED << accounts, pockets, debts, showPaycheck, income, focused,
                    borrowFrom, toFund, amount, amountInput, phase, mounted >>

\* handleApply
HandleApply(okAccounts, okPockets) ==
    LET inc == Inc
        excessForRevolut == ExcessForRevolut(inc)
        newBnpBalance == NewBnpBalance(inc)
    IN /\ accounts' = [i \in DOMAIN accounts |->
                         IF accounts[i].name = "BNP"
                         THEN [accounts[i] EXCEPT !.balance = newBnpBalance]
                         ELSE accounts[i]]
       /\ pockets' = [i \in DOMAIN pockets |->
                        [pockets[i] EXCEPT !.balance =
                            ToFixed2(pockets[i].balance
                                     + AmountToAdd(excessForRevolut, PctOf(pockets[i].name)))]]
       /\ storage' = SetItem(SetItem(storage, AccountsKey, JsArray(accounts'), okAccounts),
                             PocketsKey, JsArray(pockets'), okPockets)
       /\ showPaycheck' = FALSE
       /\ income' = 0

\* A click on "Valider la distribution": nothing when the button is disabled.
ClickApply(okAccounts, okPockets) ==
    /\ Paycheck
    /\ SplitterRendered
    /\ lastEvent' = "ClickApply"
    /\ IF ApplyDisabled
       THEN UNCHANGED << accounts, pockets, storage, showPaycheck, income >>
       ELSE HandleApply(okAccounts, okPockets)
    /\ UNCHANGED << debts, pocketPercentages, focused, borrowFrom, toFund, amount,
                    amountInput, phase, mounted >>

-----------------------------------------------------------------------------
(* DebtManager *)

SetBorrowFrom(s) ==
    /\ Dashboard
    /\ focused = "none"
    /\ borrowFrom' = s
    /\ lastEvent' = "SetBorrowFrom"
    /\ UNCHANGED << accounts, pockets, debts, pocketPercentages, showPaycheck, income,
                    focused, toFund, amount, amountInput, storage,
                    phase, mounted >>

SetToFund(s) ==
    /\ Dashboard
    /\ focused = "none"
    /\ toFund' = s
    /\ lastEvent' = "SetToFund"
    /\ UNCHANGED << accounts, pockets, debts, pocketPercentages, showPaycheck, income,
                    focused, borrowFrom, amount, amountInput, storage,
                    phase, mounted >>

\* onChange={(e) => setAmount(e.target.value)} of the "Montant" field
SetAmount(typed) ==
    /\ Dashboard
    /\ focused = "none"
    /\ amountInput' = typed
    /\ amount' = InputNumberValue(typed)
    /\ lastEvent' = "SetAmount"
    /\ UNCHANGED << accounts, pockets, debts, pocketPercentages, showPaycheck, income,
                    focused, borrowFrom, toFund, storage, phase, mounted >>

\* addDebt; now is Date.now(). The date and the note of a debt are display
\* strings that no computation reads, and are left out.
AddDebt(now, ok) ==
    /\ Dashboard
    /\ focused = "none"
    /\ lastEvent' = "AddDebt"
    /\ IF AmountRejected(amount)
       THEN UNCHANGED << debts, storage, amount, amountInput >>
       ELSE /\ Len(debts) < MaxDebts
            /\ debts' = << [id |-> now, borrowFrom |-> borrowFrom, toFund |-> toFund,
                            amount |-> RoundedAmount(amount)] >> \o debts
            /\ storage' = SetItem(storage, DebtsKey, JsArray(debts'), ok)
            /\ amount' = ""
            /\ amountInput' = ""
    /\ UNCHANGED << accounts, pockets, pocketPercentages, showPaycheck, income, focused,
                    borrowFrom, toFund, phase, mounted >>

\* onClick={() => setDebts(debts.filter((d) => d.id !== debt.id))} of the i-th row
ClickRemove(i, ok) ==
    /\ Dashboard
    /\ focused = "none"
    /\ i \in DOMAIN debts
    /\ debts' = RemoveDebt(debts, debts[i].id)
    /\ storage' = SetItem(storage, DebtsKey, JsArray(debts'), ok)
    /\ lastEvent' = "ClickRemove"
    /\ UNCHANGED << accounts, pockets, pocketPercentages, showPaycheck, income, focused,
                    borrowFrom, toFund, amount, amountInput, phase, mounted >>

-----------------------------------------------------------------------------
(* The page is loaded again: every hook runs its initializer on localStorage *)

Reload ==
    /\ phase = "running"
    /\ Handled
    /\ accounts' = UseLocalStorage(storage[AccountsKey], InitialValue(AccountsKey)).val
    /\ pockets' = UseLocalStorage(storage[PocketsKey], InitialValue(PocketsKey)).val
    /\ debts' = UseLocalStorage(storage[DebtsKey], InitialValue(DebtsKey)).val
    /\ pocketPercentages' =
           UseLocalStorage(storage[PercentagesKey], InitialValue(PercentagesKey)).val
    /\ showPaycheck' = FALSE
    /\ income' = 0
    /\ focused' = "none"
    /\ borrowFrom' = InitialBorrowFrom
    /\ toFund' = InitialToFund
    /\ amount' = ""
    /\ amountInput' = ""
    /\ lastEvent' = "Reload"
    /\ UNCHANGED << storage, phase, mounted >>

Next ==
    \/ \E id \in EditIds : OnFocus(id)
    \/ \E typed \in BalanceTexts, ok \in BOOLEAN : OnChange(typed, ok)
    \/ \E ok \in BOOLEAN : OnBlur(ok)
    \/ OpenPaycheck
    \/ ClosePaycheck
    \/ \E typed \in IncomeTexts : SetIncome(typed)
    \/ \E pocket \in SliderPockets, pct \in SliderValues, ok \in BOOLEAN :
           MoveSlider(pocket, pct, ok)
    \/ \E okAccounts \in BOOLEAN, okPockets \in BOOLEAN : ClickApply(okAccounts, okPockets)
    \/ \E s \in SelectOptions : SetBorrowFrom(s)
    \/ \E s \in SelectOptions : SetToFund(s)
    \/ \E typed \in AmountTexts : SetAmount(typed)
    \/ \E now \in Clock, ok \in BOOLEAN : AddDebt(now, ok)
    \/ \E i \in 1 .. MaxDebts, ok \in BOOLEAN : ClickRemove(i, ok)
    \/ Reload

Spec == Init /\ [][Next]_vars

-----------------------------------------------------------------------------
(* Start-up on whatever localStorage holds *)

\* What a key may hold when the page loads: nothing, "", a text that is not
\* JSON, JSON of another shape (null, a number), or what the program wrote.
LoadItems(key) ==
    {AbsentItem, EmptyItem, GarbageItem, NullItem, NumberItem,
     JsonStringify(InitialValue(key))}

JsUndefined == [type |-> "undefined", val |-> << >>]

InitLoad ==
    /\ storage \in [Keys -> UNION {LoadItems(k) : k \in Keys}]
    /\ \A k \in Keys : storage[k] \in LoadItems(k)
    /\ phase = "start"
    /\ mounted = [k \in Keys |-> JsUndefined]
    /\ accounts = DefaultAccounts
    /\ pockets = DefaultPockets
    /\ debts = DefaultDebts
    /\ pocketPercentages = DefaultPercentages
    /\ showPaycheck = FALSE
    /\ income = 0
    /\ focused = "none"
    /\ borrowFrom = "BNP"
    /\ toFund = "Revolut"
    /\ amount = ""
    /\ amountInput = ""
    /\ nEvents = 0
    /\ lastEvent = "none"

\* App's four useLocalStorage calls run their initializers.
MountApp ==
    /\ phase = "start"
    /\ mounted' = [k \in Keys |-> UseLocalStorage(storage[k], InitialValue(k))]
    /\ phase' = "mounted"
    /\ UNCHANGED << accounts, pockets, debts, pocketPercentages, showPaycheck, income,
                    focused, borrowFrom, toFund, amount, amountInput, storage,
                    nEvents, lastEvent >>

\* The first render of App throws a TypeError on pockets.reduce, accounts.map,
\* accounts.find, or on debts.forEach and debts.length below it, when the value
\* is not an array. pocketPercentages is not read before PaycheckFlow renders.
RenderThrows ==
    \/ mounted[PocketsKey].type # "array"
    \/ mounted[AccountsKey].type # "array"
    \/ mounted[DebtsKey].type # "array"

RenderApp ==
    /\ phase = "mounted"
    /\ phase' = IF RenderThrows THEN "crashed" ELSE "running"
    /\ UNCHANGED << accounts, pockets, debts, pocketPercentages, showPaycheck, income,
                    focused, borrowFrom, toFund, amount, amountInput, storage,
                    nEvents, mounted, lastEvent >>

NextLoad ==
    \/ MountApp
    \/ RenderApp

SpecLoad == InitLoad /\ [][NextLoad]_vars

-----------------------------------------------------------------------------
(* Properties *)

AllItems == accounts \o pockets
PercentageSum == SumValues(pocketPercentages, DOMAIN pocketPercentages)

\* C1: a click on the distribution while the percentages do not sum to 100
\* changes no account, no pocket and nothing persisted, leaves the paycheck
\* screen open and shows the error status.
DistributionGate ==
    [][ (lastEvent' = "ClickApply" /\ nEvents' # nEvents /\ PercentageSum # 100)
          => /\ accounts' = accounts
             /\ pockets' = pockets
             /\ storage' = storage
             /\ showPaycheck'
             /\ IsError ]_vars

\* C1 witness: the button was clicked with a positive income and a table that
\* does not sum to 100.
BlockedClickHappened ==
    /\ lastEvent = "ClickApply"
    /\ showPaycheck
    /\ income > 0
    /\ PercentageSum # 100

ClaimedExcess(inc) ==
    Max(0, GetVirtual(debts, "BNP", FindBalance(accounts, "BNP")) + inc - 236 * Euro)

RECURSIVE SumIncrements(_, _)
SumIncrements(items, inc) ==
    IF items = << >> THEN 0
    ELSE AmountToAdd(ExcessForRevolut(inc), PctOf(Head(items).name))
         + SumIncrements(Tail(items), inc)

\* C2: when the percentages sum to 100, the increments the distribution adds
\* to the pockets sum to max(0, virtual BNP + income - 236) within one cent
\* per pocket, for every income.
Conservation ==
    PercentageSum = 100 =>
        \A typed \in IncomeTexts :
            LET inc == ParseFloatOr0(typed)
            IN Abs(SumIncrements(pockets, inc) - ClaimedExcess(inc)) <= Len(pockets) * Cent

\* C2 witness: a distribution was applied with a table summing to 100 and the
\* pockets received a positive excess.
DistributionApplied ==
    /\ lastEvent = "ClickApply"
    /\ ~showPaycheck
    /\ PercentageSum = 100
    /\ SumBalances(pockets) > 0

\* C3: a distribution applied with a valid table while 236 >= virtual BNP +
\* income leaves every pocket balance as it was and sets the BNP balance to
\* round2(raw BNP + income).
ShortfallClamp ==
    [][ (/\ lastEvent' = "ClickApply"
         /\ nEvents' # nEvents
         /\ PercentageSum = 100
         /\ 236 * Euro >= GetVirtual(debts, "BNP", FindBalance(accounts, "BNP")) + income)
          => /\ \A i \in DOMAIN pockets : pockets'[i].balance = pockets[i].balance
             /\ FindBalance(accounts', "BNP")
                    = ToFixed2(FindBalance(accounts, "BNP") + income) ]_vars

Reverse(ds) == [i \in DOMAIN ds |-> ds[Len(ds) + 1 - i]]
Matches(ds, name) == \E i \in DOMAIN ds : ds[i].borrowFrom = name \/ ds[i].toFund = name
ProbeAmounts == {RoundedAmount("20.337"), 50 * Euro}

\* C4: for every container and its raw balance, over the debt list: one more
\* debt lent by the container raises getVirtual by its amount, one more debt
\* owed by it lowers getVirtual by its amount, the order of the debts does not
\* matter, and with no matching debt getVirtual is the raw balance.
GetVirtualLinear ==
    \A i \in DOMAIN AllItems :
        LET X == AllItems[i].name
            bal == AllItems[i].balance
        IN /\ \A a \in ProbeAmounts :
                /\ GetVirtual(<< [id |-> 0, borrowFrom |-> X, toFund |-> "other", amount |-> a] >>
                                  \o debts, X, bal)
                       = GetVirtual(debts, X, bal) + a
                /\ GetVirtual(<< [id |-> 0, borrowFrom |-> "other", toFund |-> X, amount |-> a] >>
                                  \o debts, X, bal)
                       = GetVirtual(debts, X, bal) - a
           /\ GetVirtual(Reverse(debts), X, bal) = GetVirtual(debts, X, bal)
           /\ ~Matches(debts, X) => GetVirtual(debts, X, bal) = bal

\* C5: removing the debt that addDebt has just inserted, by its id, gives back
\* the list as it was before addDebt.
AddRemoveRoundTrip ==
    [][ (lastEvent' = "AddDebt" /\ nEvents' # nEvents /\ debts' # debts)
          => RemoveDebt(debts', Head(debts').id) = debts ]_vars

\* C6: no two debts of the ledger have the same id.
DebtIdsUnique ==
    \A i, j \in DOMAIN debts : debts[i].id = debts[j].id => i = j

\* C7: a click on "Ajouter la dette" with an amount field that is empty, not a
\* number or not finite leaves the ledger as it was; with a number, it puts
\* one debt at the head of the ledger, whose amount is the number typed
\* rounded to 2 decimals.
AddDebtValidates ==
    [][ (lastEvent' = "AddDebt" /\ nEvents' # nEvents)
          => IF amountInput = "" \/ amountInput \in BadTexts
             THEN debts' = debts /\ storage' = storage
             ELSE /\ Len(debts') = Len(debts) + 1
                  /\ Tail(debts') = debts
                  /\ Head(debts').amount = ToFixed2(Decimal[amountInput]) ]_vars

\* C7 witness: the button was clicked on a field holding a text that is not a
\* finite number, and the ledger is still empty.
InvalidAmountRejected ==
    /\ lastEvent = "AddDebt"
    /\ amountInput \in BadTexts
    /\ debts = << >>

\* C8: the balance stored on the Revolut account, in memory and in
\* localStorage, is the seed's, whatever was edited or distributed; what is
\* displayed for it is round2 of the sum of the pocket balances; and it has no
\* input to edit it.
RevolutDerived ==
    /\ FindBalance(accounts, "Revolut") = FindBalance(DefaultAccounts, "Revolut")
    /\ storage[AccountsKey].text = "json" =>
           FindBalance(storage[AccountsKey].val.val, "Revolut")
               = FindBalance(DefaultAccounts, "Revolut")
    /\ FindBalance(DisplayAccounts, "Revolut") = ToFixed2(SumBalances(pockets))
    /\ \A it \in CurrencyInputs : it.name # "Revolut"
    /\ focused # "2"

\* C8 witness: after an edit or a distribution the pockets sum to something
\* else than the balance stored on the Revolut account.
RevolutDiffersFromStored ==
    /\ lastEvent \in {"OnBlur", "ClickApply"}
    /\ FindBalance(DisplayAccounts, "Revolut") # FindBalance(accounts, "Revolut")

\* C9: every stored account and pocket balance has at most 2 decimals.
TwoDecimalBalances ==
    \A i \in DOMAIN AllItems : AllItems[i].balance % Cent = 0

ExpectedType(key) == InitialValue(key).type
Malformed(key) ==
    \/ storage[key].text \in {"absent", "empty", "garbage"}
    \/ JsonParse(storage[key]).type # ExpectedType(key)

\* C10: once the hooks have run, a key whose stored entry is absent,
\* unparseable or of another shape holds the default seed in memory, and
\* start-up has not failed.
LoadFallsBackToDefaults ==
    /\ phase # "start" => \A k \in Keys : Malformed(k) => mounted[k] = InitialValue(k)
    /\ phase # "crashed"

\* The value each hook holds in memory.
InMemory(key) ==
    CASE key = AccountsKey -> JsArray(accounts)
      [] key = PocketsKey -> JsArray(pockets)
      [] key = DebtsKey -> JsArray(debts)
      [] OTHER -> JsObject(pocketPercentages)

\* C11: every event leaves the application running, whether or not its
\* setItem threw; a key whose stored item changed holds the stringified value
\* that is in memory after the event; and the result of addDebt, of a removal,
\* of a blur and of a distribution is in memory whatever happened to the write.
WriteFailureKeepsResult ==
    [][ nEvents' # nEvents
          => /\ phase' = "running"
             /\ \A k \in Keys :
                    storage'[k] # storage[k] => storage'[k] = JsonStringify(InMemory(k)')
             /\ (lastEvent' = "AddDebt" /\ ~AmountRejected(amount))
                    => (Len(debts') = Len(debts) + 1 /\ Tail(debts') = debts)
             /\ lastEvent' = "ClickRemove" => Len(debts') < Len(debts)
             /\ lastEvent' = "OnBlur"
                    => \E i \in DOMAIN AllItems :
                           /\ AllItems[i].id = focused
                           /\ AllItems'[i].balance = ToFixed2(AllItems[i].balance)
             /\ (lastEvent' = "ClickApply" /\ PercentageSum = 100)
                    => /\ ~showPaycheck'
                       /\ FindBalance(accounts', "BNP")
                              = ToFixed2(FindBalance(accounts, "BNP") + income
                                         - ClaimedExcess(income)) ]_vars

\* C11 witness: two debts were added, the write of one of them failed, and the
\* ledger in memory holds both while localStorage holds at most one.
FailedWriteKeptInMemory ==
    /\ lastEvent = "AddDebt"
    /\ Len(debts) = 2
    /\ storage[DebtsKey] # JsonStringify(InMemory(DebtsKey))
    /\ phase = "running"

\* The distribution that C12 is about has just been applied: the table summed
\* to 100 and the excess was positive.
DistributedExcess ==
    /\ nEvents' # nEvents
    /\ lastEvent' = "ClickApply"
    /\ PercentageSum = 100
    /\ ClaimedExcess(income) > 0

\* C12: after a distribution with a table summing to 100 and a positive excess,
\* the virtual balance of BNP over the debt ledger is exactly totalCharges, and
\* the ledger is the one the distribution found.
VirtualBnpIsCharges ==
    [][ DistributedExcess
          => /\ debts' = debts
             /\ GetVirtual(debts', "BNP", FindBalance(accounts', "BNP")) = 236 * Euro ]_vars

====
